---- MODULE Spec2Model ----
(***************************************************************************)
(* RSW96 time-lock puzzle of crypto/rsw/rswtimelock.go.                    *)
(*                                                                         *)
(* One generator object (TimelockRSW) and the puzzles (PuzzleRSW) minted   *)
(* from it.  *big.Int fields that the code shares by pointer (tl.a, tl.t,  *)
(* puzzle.a, puzzle.t) are addresses into `heap`; 0 is the nil pointer.    *)
(* p and q are never shared and are kept by value, 0 standing for nil.     *)
(* rsaKeyBits only sizes the primes the prime source hands back and is     *)
(* left out: the source's answer is drawn from Primes instead.             *)
(***************************************************************************)
EXTENDS Integers, Sequences, FiniteSets, TLC

VARIABLES tl, gen, heap, loc, rets, slv, calls

vars == <<tl, gen, heap, loc, rets, slv, calls>>

(* ------------------------------ bounds -------------------------------- *)
\* longest duration asked of Setup, and the number of Setup calls made
MaxT == 3
MaxSetups == 2

\* primes the prime source may hand back
Primes == {3, 5, 7}
\* base values handed to New: zero, the usual 2, and one sharing a factor
\* with some of the moduli
Bases == {0, 2, 3}
\* payload keys: empty, one byte, a leading zero byte, and one above every n
Keys == {<<>>, <<5>>, <<0, 5>>, <<1, 5>>}
Durations == 0..MaxT
Threads == {1, 2}

(* --------------------------- math/big as used ------------------------- *)
RECURSIVE Pow(_, _)
Pow(x, y) == IF y = 0 THEN 1 ELSE x * Pow(x, y - 1)

RECURSIVE PowMod(_, _, _)
PowMod(x, y, m) == IF y = 0 THEN 1 % m ELSE (PowMod(x, y - 1, m) * (x % m)) % m

\* big.Int.Exp(x, y, m): x**y mod |m|, result in 0..m-1; m nil or 0: x**y
Exp(x, y, m) == IF m = 0 THEN Pow(x, y) ELSE PowMod(x, y, m)

\* big.Int.Xor on non-negative operands
RECURSIVE Xor(_, _)
Xor(x, y) ==
    IF x = 0 THEN y
    ELSE IF y = 0 THEN x
    ELSE 2 * Xor(x \div 2, y \div 2) + ((x + y) % 2)

\* big.Int.SetBytes: big-endian unsigned integer of a byte slice
RECURSIVE SetBytes(_)
SetBytes(s) ==
    IF Len(s) = 0 THEN 0
    ELSE 256 * SetBytes(SubSeq(s, 1, Len(s) - 1)) + s[Len(s)]

\* big.Int.Bytes: big-endian bytes of the absolute value, no leading zeros
RECURSIVE Bytes(_)
Bytes(x) ==
    IF x = 0 THEN <<>>
    ELSE IF x < 0 THEN Bytes(0 - x)
    ELSE Append(Bytes(x \div 256), x % 256)

(* ------------------------------ errors -------------------------------- *)
NoErr == "nil"
ModulusNotInitialized == "Must set up p and q"
ExponentNotSet == "Must set up t in order to get e"
BaseNotSet == "Must set up a and n in order to get b"

(* --------------------------- TimelockRSW ------------------------------ *)
\* new(TimelockRSW): every field nil
ZeroTL == [p |-> 0, q |-> 0, t |-> 0, a |-> 0, key |-> <<>>]

NilPuzzle == [nil |-> TRUE, n |-> 0, a |-> 0, t |-> 0, ck |-> 0]

\* tl.n()
n ==
    IF tl.p = 0 \/ tl.q = 0
    THEN [err |-> ModulusNotInitialized, val |-> 0]
    ELSE [err |-> NoErr, val |-> tl.p * tl.q]

\* tl.phi()
phi ==
    IF tl.p = 0 \/ tl.q = 0
    THEN [err |-> ModulusNotInitialized, val |-> 0]
    ELSE [err |-> NoErr, val |-> (tl.p - 1) * (tl.q - 1)]

\* tl.e(): 2^t mod phi
e ==
    IF tl.t = 0 THEN [err |-> ExponentNotSet, val |-> 0]
    ELSE IF phi.err # NoErr THEN [err |-> phi.err, val |-> 0]
    ELSE [err |-> NoErr, val |-> Exp(2, heap[tl.t], phi.val)]

\* b() raising a to t itself, the 2^t forgotten
bWithoutPowerOfTwo ==
    IF tl.a = 0 THEN [err |-> BaseNotSet, val |-> 0]
    ELSE IF n.err # NoErr THEN [err |-> n.err, val |-> 0]
    ELSE IF e.err # NoErr THEN [err |-> e.err, val |-> 0]
    ELSE [err |-> NoErr, val |-> Exp(heap[tl.a], heap[tl.t], n.val)]

\* tl.b(): a^e mod n
b ==
    IF tl.a = 0 THEN [err |-> BaseNotSet, val |-> 0]
    ELSE IF n.err # NoErr THEN [err |-> n.err, val |-> 0]
    ELSE IF e.err # NoErr THEN [err |-> e.err, val |-> 0]
    ELSE [err |-> NoErr, val |-> Exp(heap[tl.a], e.val, n.val)]

\* tl.ckXOR(): b XOR k
ckXOR ==
    IF b.err # NoErr THEN [err |-> b.err, val |-> 0]
    ELSE [err |-> NoErr, val |-> Xor(b.val, SetBytes(tl.key))]

\* what the prime source (rsa.GenerateMultiPrimeKey) can hand back to New:
\* an error, or two primes; New itself puts no condition on the pair
PrimeSource ==
    {[err |-> TRUE, primes |-> <<>>]}
    \cup {[err |-> FALSE, primes |-> <<x, y>>] : x \in Primes, y \in Primes}

\* New(key, a, rsaKeyBits)
New(res, a, key) ==
    /\ gen = "zero"
    /\ calls = 0
    /\ IF res.err \/ Len(res.primes) # 2
       THEN /\ gen' = "failed"
            /\ UNCHANGED <<tl, heap>>
       ELSE /\ gen' = "new"
            /\ heap' = Append(heap, a)
            /\ tl' = [tl EXCEPT !.p = res.primes[1], !.q = res.primes[2],
                                !.a = Len(heap) + 1, !.key = key]
    /\ UNCHANGED <<loc, rets, slv, calls>>

(* ----------------------- SetupTimelockPuzzle -------------------------- *)
IdleLoc == [pc |-> "idle", t |-> 0, n |-> 0, ck |-> 0, puzzle |-> NilPuzzle]

\* a finished call: the triple (puzzle, answer, err) and the duration asked
Ret(th, puzzle, answer, answerNil, err) ==
    /\ rets' = Append(rets, [th |-> th, req |-> loc[th].t, puzzle |-> puzzle,
                             answer |-> answer, answerNil |-> answerNil,
                             err |-> err])
    /\ loc' = [loc EXCEPT ![th] = IdleLoc]

\* the duration written into the big.Int tl.t already points at
StoreTInPlace(t) ==
    IF tl.t = 0
    THEN [heap |-> Append(heap, t), ptr |-> Len(heap) + 1]
    ELSE [heap |-> [heap EXCEPT ![tl.t] = t], ptr |-> tl.t]

\* tl.t = new(big.Int).SetUint64(t): a fresh big.Int, the field re-pointed
StoreT(t) == [heap |-> Append(heap, t), ptr |-> Len(heap) + 1]

\* lines 155-161: store t, compute n
SetupCall(th, t) ==
    /\ gen # "failed"
    /\ loc[th].pc = "idle"
    /\ slv.pc # "running"
    /\ calls < MaxSetups
    /\ calls' = calls + 1
    /\ heap' = StoreT(t).heap
    /\ tl' = [tl EXCEPT !.t = StoreT(t).ptr]
    /\ IF n.err # NoErr
       THEN /\ rets' = Append(rets, [th |-> th, req |-> t, puzzle |-> NilPuzzle,
                                     answer |-> <<>>, answerNil |-> TRUE,
                                     err |-> n.err])
            /\ UNCHANGED loc
       ELSE /\ loc' = [loc EXCEPT ![th] = [IdleLoc EXCEPT !.pc = "ckXOR",
                                                        !.t = t, !.n = n.val]]
            /\ UNCHANGED rets
    /\ UNCHANGED <<gen, slv>>

\* lines 162-166: ck from the generator's fields as they are now
SetupCkXOR(th) ==
    /\ loc[th].pc = "ckXOR"
    /\ IF ckXOR.err # NoErr
       THEN Ret(th, NilPuzzle, <<>>, TRUE, ckXOR.err)
       ELSE /\ loc' = [loc EXCEPT ![th].pc = "puzzle", ![th].ck = ckXOR.val]
            /\ UNCHANGED rets
    /\ UNCHANGED <<tl, gen, heap, slv, calls>>

\* lines 168-174: the puzzle takes n and ck, and the pointers tl.a and tl.t
SetupPuzzle(th) ==
    /\ loc[th].pc = "puzzle"
    /\ loc' = [loc EXCEPT ![th].pc = "answer",
                          ![th].puzzle = [nil |-> FALSE, n |-> loc[th].n,
                                          a |-> tl.a, t |-> tl.t,
                                          ck |-> loc[th].ck]]
    /\ UNCHANGED <<tl, gen, heap, rets, slv, calls>>

\* lines 176-183: b again, answer = (ck - b).Bytes()
SetupAnswer(th) ==
    /\ loc[th].pc = "answer"
    /\ IF b.err # NoErr
       THEN Ret(th, loc[th].puzzle, <<>>, TRUE, b.err)
       ELSE Ret(th, loc[th].puzzle, Bytes(loc[th].ck - b.val), FALSE, NoErr)
    /\ UNCHANGED <<tl, gen, heap, slv, calls>>

(* ------------------------------ PuzzleRSW ----------------------------- *)
\* a^(2^t) mod n as the solve path writes it: one Exp on the full exponent
SolveB(pz) == Exp(heap[pz.a], Exp(2, heap[pz.t], 0), pz.n)

SolveCkADD(pz) == Bytes(pz.ck - SolveB(pz))

SolveCkXOR(pz) == Bytes(Xor(pz.ck, SolveB(pz)))

\* Solve()
Solve(pz) == SolveCkXOR(pz)

IdleSlv == [pc |-> "idle", i |-> 0, method |-> "Solve", cancelled |-> FALSE,
            squarings |-> 0, answer |-> <<>>, answerNil |-> TRUE, err |-> NoErr]

\* a holder of puzzle i calls Solve or SolveCkADD; the caller is between
\* Setup calls
SolveCall(i, method) ==
    /\ slv.pc # "running"
    /\ \A th \in Threads : loc[th].pc = "idle"
    /\ i \in 1..Len(rets)
    /\ ~rets[i].puzzle.nil
    /\ slv' = [IdleSlv EXCEPT !.pc = "running", !.i = i, !.method = method]
    /\ UNCHANGED <<tl, gen, heap, loc, rets, calls>>

\* the caller asks for the running solve to stop; the methods take no
\* context or channel, so nothing in them reads the request
Cancel ==
    /\ slv.pc = "running"
    /\ ~slv.cancelled
    /\ slv' = [slv EXCEPT !.cancelled = TRUE]
    /\ UNCHANGED <<tl, gen, heap, loc, rets, calls>>

\* the one-line body returns; it has run no squaring loop of its own
SolveReturn ==
    /\ slv.pc = "running"
    /\ slv' = [slv EXCEPT !.pc = "returned",
                          !.answer = IF slv.method = "Solve"
                                     THEN Solve(rets[slv.i].puzzle)
                                     ELSE SolveCkADD(rets[slv.i].puzzle),
                          !.answerNil = FALSE,
                          !.err = NoErr]
    /\ UNCHANGED <<tl, gen, heap, loc, rets, calls>>

(* --------------------------- specifications --------------------------- *)
Init ==
    /\ tl = ZeroTL
    /\ gen = "zero"
    /\ heap = <<>>
    /\ loc = [th \in Threads |-> IdleLoc]
    /\ rets = <<>>
    /\ slv = IdleSlv
    /\ calls = 0

Setup(th) ==
    \/ \E t \in Durations : SetupCall(th, t)
    \/ SetupCkXOR(th)
    \/ SetupPuzzle(th)
    \/ SetupAnswer(th)

Solver ==
    \/ \E i \in 1..MaxSetups, method \in {"Solve", "SolveCkADD"} : SolveCall(i, method)
    \/ Cancel
    \/ SolveReturn

Construct == \E res \in PrimeSource, a \in Bases, key \in Keys : New(res, a, key)

\* one caller: Setup calls on the generator never overlap
Next ==
    \/ Construct
    \/ Setup(1)
    \/ Solver

Spec == Init /\ [][Next]_vars

\* two callers share the generator and call Setup at the same time
NextConc ==
    \/ Construct
    \/ \E th \in Threads : Setup(th)

SpecConc == Init /\ [][NextConc]_vars

(* ------------------------------ claims -------------------------------- *)
\* the solver iteration s_0 = a, s_(i+1) = s_i^2 mod n, taken k times
RECURSIVE SquareTimes(_, _, _)
SquareTimes(s, k, m) == IF k = 0 THEN s % m ELSE SquareTimes((s * s) % m, k - 1, m)

RECURSIVE Gcd(_, _)
Gcd(x, y) == IF y = 0 THEN x ELSE Gcd(y, x % y)

\* the generator came from New with distinct primes and a nonzero base
ValidGenerator == gen = "new" /\ tl.p # tl.q /\ heap[tl.a] # 0

\* Solve has returned for the puzzle of the i-th Setup call
Solved(i) == slv.pc = "returned" /\ slv.method = "Solve" /\ slv.i = i

\* the public fields of the puzzle of the i-th Setup call, pointers followed
View(i) ==
    [n |-> rets[i].puzzle.n, a |-> heap[rets[i].puzzle.a],
     t |-> heap[rets[i].puzzle.t], ck |-> rets[i].puzzle.ck]

\* the error a cancelled solve is to end with
Cancelled == "Cancelled"

\* the base shares no factor with the modulus
CoprimeBase == Gcd(n.val, heap[tl.a]) = 1

\* C1: for distinct primes, a nonzero base and a key whose integer value is
\* below n, Solve on the puzzle Setup returned gives back exactly the bytes
\* of key.  Stated for bases coprime to n, where owner and solver agree on
\* the locked value (C2).
C1_RoundTrip ==
    \A i \in 1..Len(rets) :
        (ValidGenerator /\ CoprimeBase /\ SetBytes(tl.key) < n.val
            /\ rets[i].err = NoErr /\ Solved(i))
            => slv.answer = tl.key

C3_SequentialWork ==
    (ValidGenerator /\ Solved(slv.i))
        => slv.squarings = heap[rets[slv.i].puzzle.t]

\* C4: the answer Setup returns with a puzzle is the answer Solve returns
\* for that puzzle.  Stated for bases coprime to n (C2).
C4_OwnerAnswerIsSolverAnswer ==
    \A i \in 1..Len(rets) :
        (ValidGenerator /\ CoprimeBase /\ rets[i].err = NoErr /\ Solved(i))
            => slv.answer = rets[i].answer

\* C5: a solve the caller cancelled before it returned ends with the
\* Cancelled error and no answer bytes.
C5_Cancellation ==
    (ValidGenerator /\ Solved(slv.i) /\ slv.cancelled)
        => (slv.err = Cancelled /\ slv.answerNil)

C7_BasePrecondition ==
    \A i \in 1..Len(rets) :
        /\ (gen = "new" /\ tl.p # tl.q /\ heap[tl.a] = 0)
               => (rets[i].err = BaseNotSet /\ rets[i].puzzle.nil /\ rets[i].answerNil)
        /\ (tl.p # tl.q /\ ~rets[i].puzzle.nil) => heap[rets[i].puzzle.a] # 0

\* C8, first half: Setup(0) masks key with b = a mod n.
C8_ZeroDurationLockedValue ==
    \A i \in 1..Len(rets) :
        (ValidGenerator /\ rets[i].req = 0 /\ rets[i].err = NoErr)
            => rets[i].puzzle.ck = Xor(heap[tl.a] % n.val, SetBytes(tl.key))

\* C8: for distinct primes and a nonzero base, Setup(0) locks with
\* b = a mod n and Solve on its puzzle returns key unchanged.
C8_ZeroDuration ==
    /\ C8_ZeroDurationLockedValue
    /\ \A i \in 1..Len(rets) :
           (ValidGenerator /\ rets[i].req = 0 /\ rets[i].err = NoErr /\ Solved(i))
               => slv.answer = tl.key

\* C9: no step changes a field (n, a, t, ck) of a puzzle already issued:
\* not a later Setup, whatever its duration, and not a Solve or SolveCkADD.
C9_PuzzleImmutable ==
    [][\A i \in 1..Len(rets) :
           ~rets[i].puzzle.nil
               => (rets'[i].puzzle = rets[i].puzzle /\ View(i)' = View(i))]_vars

\* two puzzles of different durations are out, and the first has been solved
\* after the second was issued
C9_Witness ==
    /\ Len(rets) = 2
    /\ ~rets[1].puzzle.nil /\ ~rets[2].puzzle.nil
    /\ View(1).t # View(2).t
    /\ slv.pc = "returned" /\ slv.i = 1

\* C10: with two Setup calls running together on one generator, each call
\* returns a puzzle whose t is the duration it was given and whose ck is
\* (a^(2^t) mod n) XOR key for that t.  Stated for bases coprime to n.
C10_ConcurrentSetup ==
    \A i \in 1..Len(rets) :
        (ValidGenerator /\ CoprimeBase /\ rets[i].err = NoErr)
            => /\ View(i).t = rets[i].req
               /\ View(i).ck = Xor(SquareTimes(heap[tl.a], rets[i].req, n.val),
                                   SetBytes(tl.key))

====
